---- MODULE Spec2Model ----
(***************************************************************************)
(* The C++ entry point call() of the PostgreSQL connector                  *)
(* (src/ports/postgres/dbconnector/PGMain.cpp): the guarded invocation of  *)
(* a native function and the translation of every failure into one         *)
(* ereport().  One frame of call() is a record; the frames of the          *)
(* invocations in progress form the sequence stack.                        *)
(***************************************************************************)
EXTENDS Integers, Sequences, FiniteSets, TLC

VARIABLES stack, last

vars == <<stack, last>>

\* ------------------------------------------------------------------ bounds
\* number of distinct text families the environment draws messages from
NumTags == 2
\* how far beyond the buffer size the longest message reaches
Over == 1000
\* how many times one native function may set the pending error
MaxSets == 2
\* how many invocations may be in progress, one inside the other
MaxDepth == 2

\* --------------------------------------------------------------- constants
\* char msg[2048]
MsgSize == 2048

ERRCODE_OUT_OF_MEMORY == "53200"
ERRCODE_INVALID_PARAMETER_VALUE == "22023"

PACKAGE_NAME == <<77, 65, 68, 108, 105, 98>>

\* "Memory allocation failed. Typically, this indicates that " PACKAGE_NAME
\* " limits the available memory to less than what is needed for this input."
OutOfMemoryText ==
    <<77, 101, 109, 111, 114, 121, 32, 97, 108, 108, 111, 99, 97, 116, 105,
      111, 110, 32, 102, 97, 105, 108, 101, 100, 46, 32, 84, 121, 112, 105,
      99, 97, 108, 108, 121, 44, 32, 116, 104, 105, 115, 32, 105, 110, 100,
      105, 99, 97, 116, 101, 115, 32, 116, 104, 97, 116, 32>>
    \o PACKAGE_NAME \o
    <<32, 108, 105, 109, 105, 116, 115, 32, 116, 104, 101, 32, 97, 118, 97,
      105, 108, 97, 98, 108, 101, 32, 109, 101, 109, 111, 114, 121, 32, 116,
      111, 32, 108, 101, 115, 115, 32, 116, 104, 97, 110, 32, 119, 104, 97,
      116, 32, 105, 115, 32, 110, 101, 101, 100, 101, 100, 32, 102, 111, 114,
      32, 116, 104, 105, 115, 32, 105, 110, 112, 117, 116, 46>>

\* "Unknown exception was raised."
UnknownExceptionText ==
    <<85, 110, 107, 110, 111, 119, 110, 32, 101, 120, 99, 101, 112, 116, 105,
      111, 110, 32, 119, 97, 115, 32, 114, 97, 105, 115, 101, 100, 46>>

\* the literal parts of the format "Function \"%s\": %s"
FormatHead == <<70, 117, 110, 99, 116, 105, 111, 110, 32, 34>>
FormatMid == <<34, 58, 32>>

\* ----------------------------------------------------------------- strings
\* A const char * is a record naming the string it points to: tag 0 is the
\* null pointer, tag -1 and -2 the two string literals of call(), a positive
\* tag a text of the environment (an exception's what(), a pending error).
NULL == [tag |-> 0, len |-> 0]
OutOfMemoryLiteral == [tag |-> -1, len |-> Len(OutOfMemoryText)]
UnknownExceptionLiteral == [tag |-> -2, len |-> Len(UnknownExceptionText)]

Tags == 1..NumTags
Lens == {0, 2, MsgSize - 1, MsgSize, MsgSize + Over}

\* the texts of the environment; the long ones are drawn from one family
Msgs == {m \in [tag : Tags, len : Lens] : m.len <= 2 \/ m.tag = 1}

\* the texts code below f records as the pending error: a short one, and one
\* longer than the buffer from a family of its own
Pending == {[tag |-> 1, len |-> 2], [tag |-> NumTags, len |-> MsgSize + Over]}

\* the bytes of the string p points to, without its terminator
Deref(p) ==
    IF p.tag = -1 THEN OutOfMemoryText
    ELSE IF p.tag = -2 THEN UnknownExceptionText
    ELSE [i \in 1..p.len |-> ((p.tag * 31 + i * 7) % 255) + 1]

\* strncpy(dst, src, n), dst an array of MsgSize bytes: the bytes of src, then
\* NULs up to n bytes in all; no NUL is written when src has n bytes or more
strncpy(dst, src, n) ==
    [i \in 1..MsgSize |->
        IF i > n THEN dst[i]
        ELSE IF i <= Len(src) THEN src[i]
        ELSE 0]

\* index of the first NUL of buf, Len(buf) + 1 when it holds none
FirstNul(buf) ==
    CHOOSE i \in 1..(Len(buf) + 1) :
        /\ (i = Len(buf) + 1 \/ buf[i] = 0)
        /\ \A j \in 1..(i - 1) : buf[j] # 0

HasNul(buf) == FirstNul(buf) <= Len(buf)

\* what the conversion %s reads from buf: the bytes before the first NUL
CString(buf) == SubSeq(buf, 1, FirstNul(buf) - 1)

\* --------------------------------------------------------------- the host
\* the exported symbols and the native function each entry point passes on
Symbols == {"add", "mul"}

\* every entry point passes the same native function
RegistryOneForAll == [s \in Symbols |-> "modules::add"]

Registry == [s \in Symbols |-> IF s = "add" THEN "modules::add" ELSE "modules::mul"]

\* fcinfo->flinfo->fn_oid of the function the host is calling
ProcOid == [s \in Symbols |-> IF s = "add" THEN 16401 ELSE 16402]

\* format_procedure(oid)
format_procedure(oid) ==
    IF oid = 16401 THEN <<97, 100, 100>> ELSE <<109, 117, 108>>

\* the format without the quotes around the name
errmsgUnquoted(name, buf) ==
    SubSeq(FormatHead, 1, Len(FormatHead) - 1) \o name \o <<58, 32>> \o CString(buf)

\* errmsg("Function \"%s\": %s", name, msg)
errmsg(name, buf) == FormatHead \o name \o FormatMid \o CString(buf)

\* the bytes an automatic variable holds before its first assignment
Indeterminate ==
    { [code |-> "indeterminate", byte |-> 170],
      [code |-> ERRCODE_OUT_OF_MEMORY, byte |-> 0] }

\* ------------------------------------------------------------- exceptions
NoExc == [kind |-> "none", what |-> NULL]

\* what a failing step may throw: a std::bad_alloc, another std::exception,
\* an object of a class outside the std::exception hierarchy, a non-class value
BadAllocs == [kind : {"bad_alloc"}, what : {m \in Msgs : m.tag = 1 /\ m.len \in {2, MsgSize}}]
StdExceptions == [kind : {"std"}, what : Msgs]
Foreign == [kind : {"other_class", "non_exception"}, what : {NULL}]
Throwables == BadAllocs \cup StdExceptions \cup Foreign

\* does catch (T &) match an exception of kind k
Matches(k, T) ==
    \/ T = "..."
    \/ T = "std::bad_alloc" /\ k = "bad_alloc"
    \/ T = "std::exception" /\ k \in {"bad_alloc", "std"}

\* the inner handlers with the general one first
InnerHandlersGeneralFirst == <<"std::exception", "std::bad_alloc">>

\* the handlers of the inner try block, in source order
InnerHandlers == <<"std::bad_alloc", "std::exception">>

\* the outer try block without its catch (...)
OuterHandlersNoCatchAll == <<"std::exception">>

\* the handlers of the outer try block, in source order
OuterHandlers == <<"std::exception", "...">>

\* the first handler of hs that matches e, "" when none does
Handler(hs, e) ==
    IF \E i \in 1..Len(hs) : Matches(e.kind, hs[i])
    THEN hs[CHOOSE i \in 1..Len(hs) :
                /\ Matches(e.kind, hs[i])
                /\ \A j \in 1..(i - 1) : ~Matches(e.kind, hs[j])]
    ELSE ""

\* ----------------------------------------------------------------- values
\* an AnyType result: null, or a value
\* ref: the value shares the pointer of the argument value (f returned what
\* it was given)
Results == {[isNull |-> TRUE, v |-> 0, ref |-> FALSE],
            [isNull |-> FALSE, v |-> 3, ref |-> TRUE],
            [isNull |-> FALSE, v |-> -1, ref |-> FALSE]}

\* a Datum: the two 16-bit halves of the word the host receives
NullDatum == <<0, 0>>

\* PGToDatumConverter(fcinfo).convertToDatum(result) for a 32-bit integer
convertToDatum(r) == <<(r.v \div 65536) % 65536, r.v % 65536>>

\* ------------------------------------------------------------------ frames
Max(a, b) == IF a >= b THEN a ELSE b

Min(a, b) == IF a <= b THEN a ELSE b

Top == stack[Len(stack)]

SetTop(fr) == [stack EXCEPT ![Len(stack)] = fr]

At(p) == stack # <<>> /\ Top.pc = p

\* the frame of call(f, fcinfo) on entry
NewFrame(sym, g) ==
    [ sym |-> sym,
      f |-> Registry[sym],
      fcinfo |-> [fn_oid |-> ProcOid[sym], isnull |-> FALSE],
      pc |-> "ctx",
      sqlerrcode |-> g.code,
      msg |-> [i \in 1..MsgSize |-> g.byte],
      db |-> "none",
      lastError |-> NULL,
      arg |-> "none",
      argval |-> "none",
      result |-> <<>>,
      exc |-> NoExc,
      \* history of the invocation
      entry |-> g,
      fret |-> <<>>,
      site |-> "none",
      thrown |-> NoExc,
      writes |-> <<>>,
      chosen |-> NULL,
      slotReads |-> 0,
      wrHigh |-> 0,
      nDb |-> 0, nArg |-> 0, nF |-> 0, nConv |-> 0,
      assigned |-> {},
      ran |-> <<>>,
      argRefs |-> 0,
      argReleases |-> 0,
      releasedBy |-> {},
      derefs |-> <<>> ]

\* what the host has seen of the invocation that ended last
NoOutcome ==
    [outcome |-> "none", code |-> "", text |-> <<>>, datum |-> NullDatum,
     isnull |-> FALSE, ereports |-> 0, returns |-> 0, fr |-> <<>>]

Init ==
    /\ stack = <<>>
    /\ last = NoOutcome

\* a generated entry point: Datum SQLName(PG_FUNCTION_ARGS) { return call(...) }
Invoke(sym, g) ==
    /\ stack = <<>>
    /\ stack' = <<NewFrame(sym, g)>>
    /\ last' = NoOutcome

\* an entry point is called while f of the running invocation is executing: f
\* has called a service of the host that calls an exported symbol
Reenter(sym, g) ==
    /\ At("in_f")
    /\ Len(stack) < MaxDepth
    /\ stack' = Append(stack, NewFrame(sym, g))
    /\ last' = NoOutcome

\* ---------------------------------------------------------- scope exits
\* a deleter that deletes what the shared pointer refers to
DeletingDeleter(fr) ==
    [fr EXCEPT !.arg = "destroyed", !.argReleases = @ + 1,
               !.releasedBy = @ \cup {"value"}]

\* NoDeleter<AbstractType>(): called when the last pointer to arg goes away
NoDeleter(fr) == fr

\* one AnyType value referring to arg is destroyed
ReleaseRef(fr) ==
    LET g == [fr EXCEPT !.argRefs = @ - 1]
    IN IF g.argRefs = 0 THEN NoDeleter(g) ELSE g

\* the end of the scope of arg: its destructor runs
DestroyArg(fr) ==
    IF fr.arg = "none" THEN fr
    ELSE [fr EXCEPT !.arg = "destroyed", !.argReleases = @ + 1,
                    !.releasedBy = @ \cup {"scope"}]

\* leaving the inner try block destroys result, the AnyType argument and arg
LeaveInner(fr) ==
    LET r == IF fr.result # <<>> /\ fr.result[1].ref THEN ReleaseRef(fr) ELSE fr
        t == IF r.argval = "alive" THEN ReleaseRef(r) ELSE r
    IN DestroyArg([t EXCEPT !.result = <<>>,
                            !.argval = IF @ = "alive" THEN "destroyed" ELSE @])

\* leaving the outer try block destroys db
LeaveOuter(fr) ==
    [fr EXCEPT !.db = IF @ = "alive" THEN "destroyed" ELSE @,
               !.lastError = NULL]

\* a throw inside the inner try block: unwind to the inner handlers
ThrowInner(fr, e, site) ==
    [LeaveInner(fr) EXCEPT !.exc = e, !.thrown = e, !.site = site,
                           !.pc = "thrown_inner"]

\* return d: every local of both try blocks is destroyed, the frame is left
Return(fr, d, isnull) ==
    /\ stack' = SubSeq(stack, 1, Len(stack) - 1)
    /\ last' = [outcome |-> "returned", code |-> "", text |-> <<>>,
                datum |-> d, isnull |-> isnull, ereports |-> 0, returns |-> 1,
                fr |-> [LeaveOuter(LeaveInner(fr)) EXCEPT
                           !.fcinfo.isnull = isnull, !.pc = "returned"]]

\* strncpy(msg, p, n) in a catch handler
CopyMessage(fr, p, n) ==
    [fr EXCEPT !.msg = strncpy(@, Deref(p), n),
               !.derefs = Append(@, [p |-> p, db |-> fr.db,
                                     lastError |-> fr.lastError, exc |-> fr.exc]),
               !.chosen = p,
               !.wrHigh = Max(@, n),
               !.assigned = @ \cup {"msg"}]

\* ------------------------------------------------------------ the try body
\* the pending error is kept in one place for all invocations
ConstructDbSharedSlot ==
    /\ At("ctx")
    /\ stack' = SetTop([Top EXCEPT
                           !.db = "alive",
                           !.lastError = IF Len(stack) > 1
                                         THEN stack[Len(stack) - 1].lastError
                                         ELSE NULL,
                           !.nDb = @ + 1, !.pc = "arg"])
    /\ UNCHANGED last

\* PGInterface db(fcinfo);
ConstructDb ==
    /\ At("ctx")
    /\ stack' = SetTop([Top EXCEPT !.db = "alive", !.lastError = NULL,
                                   !.nDb = @ + 1, !.pc = "arg"])
    /\ UNCHANGED last

\* db declared inside the inner try block
ConstructDbThrowsInner(e) ==
    /\ At("ctx")
    /\ stack' = SetTop([Top EXCEPT !.nDb = @ + 1, !.exc = e, !.thrown = e,
                                   !.site = "ctx", !.pc = "thrown_inner"])
    /\ UNCHANGED last

\* PGInterface db(fcinfo) throws: no db exists, the outer handlers are searched
ConstructDbThrows(e) ==
    /\ At("ctx")
    /\ stack' = SetTop([Top EXCEPT !.nDb = @ + 1, !.exc = e, !.thrown = e,
                                   !.site = "ctx", !.pc = "thrown_outer"])
    /\ UNCHANGED last

\* PGType<FunctionCallInfo> arg(fcinfo);
ConstructArg ==
    /\ At("arg")
    /\ stack' = SetTop([Top EXCEPT !.arg = "alive", !.nArg = @ + 1, !.pc = "call"])
    /\ UNCHANGED last

ConstructArgThrows(e) ==
    /\ At("arg")
    /\ stack' = SetTop(ThrowInner([Top EXCEPT !.nArg = @ + 1], e, "arg"))
    /\ UNCHANGED last

\* f(db, AnyType(AbstractTypeSPtr(&arg, NoDeleter<AbstractType>()))): the
\* argument value refers to arg without owning it, then f is entered
CallF ==
    /\ At("call")
    /\ stack' = SetTop([Top EXCEPT !.argval = "alive", !.argRefs = 1,
                                   !.nF = @ + 1, !.ran = Append(@, Top.f),
                                   !.pc = "in_f"])
    /\ UNCHANGED last

\* building the shared pointer of the argument value fails to allocate
WrapThrows(e) ==
    /\ At("call")
    /\ stack' = SetTop(ThrowInner(Top, e, "arg"))
    /\ UNCHANGED last

\* code below f records a pending error in db
SetLastError(m) ==
    /\ At("in_f")
    /\ Len(Top.writes) < MaxSets
    /\ stack' = SetTop([Top EXCEPT !.lastError = m, !.writes = Append(@, m)])
    /\ UNCHANGED last

\* a pending error left by f is turned into a failure when f returns
FReturnsChecksPending(r) ==
    /\ At("in_f")
    /\ stack' = SetTop(IF Top.lastError # NULL
                       THEN [ThrowInner(Top, [kind |-> "std", what |-> Top.lastError], "pending")
                                EXCEPT !.fret = <<r>>]
                       ELSE ReleaseRef([Top EXCEPT
                               !.result = <<r>>, !.fret = <<r>>,
                               !.argRefs = IF r.ref THEN @ + 1 ELSE @,
                               !.argval = "destroyed",
                               !.pc = "isnull"]))
    /\ UNCHANGED last

\* f returns its result; the temporary argument value is destroyed
FReturns(r) ==
    /\ At("in_f")
    /\ stack' = SetTop(ReleaseRef([Top EXCEPT
                           !.result = <<r>>, !.fret = <<r>>,
                           !.argRefs = IF r.ref THEN @ + 1 ELSE @,
                           !.argval = "destroyed",
                           !.pc = "isnull"]))
    /\ UNCHANGED last

FThrows(e) ==
    /\ At("in_f")
    /\ stack' = SetTop(ThrowInner(Top, e, "f"))
    /\ UNCHANGED last

\* the null return without its test
ReturnNullUntested ==
    /\ At("isnull")
    /\ Return(Top, NullDatum, TRUE)

\* if (result.isNull()) PG_RETURN_NULL();
ReturnNull ==
    /\ At("isnull")
    /\ Top.result[1].isNull
    /\ Return(Top, NullDatum, TRUE)

\* PGToDatumConverter(fcinfo).convertToDatum(result) is entered
Convert ==
    /\ At("isnull")
    /\ ~Top.result[1].isNull
    /\ stack' = SetTop([Top EXCEPT !.nConv = @ + 1, !.pc = "convert"])
    /\ UNCHANGED last

\* the converted value is not returned: control runs on to the report
ReturnDatumFallsThrough ==
    /\ At("convert")
    /\ stack' = SetTop([LeaveOuter(LeaveInner(Top)) EXCEPT !.pc = "post"])
    /\ UNCHANGED last

\* return PGToDatumConverter(fcinfo).convertToDatum(result);
ReturnDatum ==
    /\ At("convert")
    /\ Return(Top, convertToDatum(Top.result[1]), Top.fcinfo.isnull)

ConvertThrows(e) ==
    /\ At("convert")
    /\ stack' = SetTop(ThrowInner(Top, e, "conv"))
    /\ UNCHANGED last

\* the handler sets the code and leaves msg as it is
InnerBadAllocBodyNoCopy(fr) ==
    [fr EXCEPT !.sqlerrcode = ERRCODE_OUT_OF_MEMORY,
               !.assigned = @ \cup {"sqlerrcode"},
               !.chosen = OutOfMemoryLiteral,
               !.exc = NoExc, !.pc = "inner_done"]

\* ------------------------------------------------------------ the handlers
\* catch (std::bad_alloc &) of the inner try block
InnerBadAllocBody(fr) ==
    [CopyMessage([fr EXCEPT !.sqlerrcode = ERRCODE_OUT_OF_MEMORY,
                            !.assigned = @ \cup {"sqlerrcode"}],
                 OutOfMemoryLiteral, MsgSize)
        EXCEPT !.exc = NoExc, !.pc = "inner_done"]

InnerCatchBadAlloc ==
    /\ At("thrown_inner")
    /\ Handler(InnerHandlers, Top.exc) = "std::bad_alloc"
    /\ stack' = SetTop(InnerBadAllocBody(Top))
    /\ UNCHANGED last

\* the pending error is never looked at
WhatOnly(fr) == fr.exc.what

\* const char *error = exc.what(); if (db.lastError()) error = db.lastError();
PendingOrWhat(fr) ==
    IF fr.lastError # NULL THEN fr.lastError ELSE fr.exc.what

\* catch (std::exception &exc) of the inner try block
InnerStdBody(fr) ==
    [CopyMessage([fr EXCEPT !.sqlerrcode = ERRCODE_INVALID_PARAMETER_VALUE,
                            !.assigned = @ \cup {"sqlerrcode"},
                            !.slotReads = @ + 1],
                 PendingOrWhat(fr), MsgSize)
        EXCEPT !.exc = NoExc, !.pc = "inner_done"]

InnerCatchStd ==
    /\ At("thrown_inner")
    /\ Handler(InnerHandlers, Top.exc) = "std::exception"
    /\ stack' = SetTop(InnerStdBody(Top))
    /\ UNCHANGED last

\* no inner handler matches: db is destroyed, the outer handlers are searched
PropagateOuter ==
    /\ At("thrown_inner")
    /\ Handler(InnerHandlers, Top.exc) = ""
    /\ stack' = SetTop([LeaveOuter(Top) EXCEPT !.pc = "thrown_outer"])
    /\ UNCHANGED last

\* the handled failure runs into a null return
LeaveOuterTryReturns ==
    /\ At("inner_done")
    /\ Return(Top, NullDatum, TRUE)

\* db is declared outside the outer try block and outlives it
LeaveOuterTryKeepsDb ==
    /\ At("inner_done")
    /\ stack' = SetTop([Top EXCEPT !.pc = "post"])
    /\ UNCHANGED last

\* an inner handler has run to its end: the outer try block is left
LeaveOuterTry ==
    /\ At("inner_done")
    /\ stack' = SetTop([LeaveOuter(Top) EXCEPT !.pc = "post"])
    /\ UNCHANGED last

\* the outer handler reports the generic text for every exception
OuterStdBodyGeneric(fr) ==
    [CopyMessage([fr EXCEPT !.sqlerrcode = ERRCODE_INVALID_PARAMETER_VALUE,
                            !.assigned = @ \cup {"sqlerrcode"}],
                 UnknownExceptionLiteral, MsgSize)
        EXCEPT !.exc = NoExc, !.pc = "post"]

\* catch (std::exception &exc) of the outer try block
OuterStdBody(fr) ==
    [CopyMessage([fr EXCEPT !.sqlerrcode = ERRCODE_INVALID_PARAMETER_VALUE,
                            !.assigned = @ \cup {"sqlerrcode"}],
                 fr.exc.what, MsgSize)
        EXCEPT !.exc = NoExc, !.pc = "post"]

OuterCatchStd ==
    /\ At("thrown_outer")
    /\ Handler(OuterHandlers, Top.exc) = "std::exception"
    /\ stack' = SetTop(OuterStdBody(Top))
    /\ UNCHANGED last

\* catch (...) without the assignment of sqlerrcode
OuterAllBodyNoCode(fr) ==
    [CopyMessage(fr, UnknownExceptionLiteral, MsgSize)
        EXCEPT !.exc = NoExc, !.pc = "post"]

\* catch (...) of the outer try block
OuterAllBody(fr) ==
    [CopyMessage([fr EXCEPT !.sqlerrcode = ERRCODE_INVALID_PARAMETER_VALUE,
                            !.assigned = @ \cup {"sqlerrcode"}],
                 UnknownExceptionLiteral, MsgSize)
        EXCEPT !.exc = NoExc, !.pc = "post"]

OuterCatchAll ==
    /\ At("thrown_outer")
    /\ Handler(OuterHandlers, Top.exc) = "..."
    /\ stack' = SetTop(OuterAllBody(Top))
    /\ UNCHANGED last

\* the terminator is not written
TerminateBodyOmitted(fr) == [fr EXCEPT !.pc = "ereport"]

\* --------------------------------------------------------------- reporting
\* msg[sizeof(msg) - 1] = '\0';
TerminateBody(fr) ==
    [fr EXCEPT !.msg[MsgSize] = 0, !.wrHigh = Max(@, MsgSize), !.pc = "ereport"]

Terminate ==
    /\ At("post")
    /\ stack' = SetTop(TerminateBody(Top))
    /\ UNCHANGED last

\* the bytes %s may meet beyond a buffer that holds no NUL
OverRead == {<<0>>, <<170, 0>>}

\* the handler keeps the pointer and the report formats the text it points to
EreportFromPointer ==
    /\ At("ereport")
    /\ last' = [outcome |-> "reported", code |-> Top.sqlerrcode,
                text |-> errmsg(format_procedure(Top.fcinfo.fn_oid),
                                SubSeq(Deref(Top.chosen), 1, Min(Top.chosen.len, MsgSize - 1)) \o <<0>>),
                datum |-> NullDatum, isnull |-> FALSE, ereports |-> 1, returns |-> 0,
                fr |-> [Top EXCEPT !.pc = "reported",
                                   !.derefs = Append(@, [p |-> Top.chosen, db |-> Top.db,
                                                         lastError |-> Top.lastError,
                                                         exc |-> Top.exc])]]
    /\ stack' = <<>>

\* ereport(ERROR, (errcode(sqlerrcode), errmsg(...))): the host takes the
\* report and leaves every frame above its handler by longjmp
Ereport ==
    /\ At("ereport")
    /\ \E beyond \in IF HasNul(Top.msg) THEN {<<>>} ELSE OverRead :
         last' = [outcome |-> "reported", code |-> Top.sqlerrcode,
                  text |-> errmsg(format_procedure(Top.fcinfo.fn_oid),
                                  Top.msg \o beyond),
                  datum |-> NullDatum, isnull |-> FALSE, ereports |-> 1, returns |-> 0,
                  fr |-> [Top EXCEPT !.pc = "reported"]]
    /\ stack' = <<>>

Next ==
    \/ \E sym \in Symbols, g \in Indeterminate : Invoke(sym, g)
    \/ ConstructDb
    \/ \E e \in Throwables : ConstructDbThrows(e)
    \/ ConstructArg
    \/ \E e \in Throwables : ConstructArgThrows(e)
    \/ CallF
    \/ \E e \in BadAllocs : WrapThrows(e)
    \/ \E m \in Pending : SetLastError(m)
    \/ \E r \in Results : FReturns(r)
    \/ \E e \in Throwables : FThrows(e)
    \/ ReturnNull
    \/ Convert
    \/ ReturnDatum
    \/ \E e \in Throwables : ConvertThrows(e)
    \/ InnerCatchBadAlloc
    \/ InnerCatchStd
    \/ PropagateOuter
    \/ LeaveOuterTry
    \/ OuterCatchStd
    \/ OuterCatchAll
    \/ Terminate
    \/ Ereport

Spec == Init /\ [][Next]_vars

\* -------------------------------------------- invocations inside invocations
\* the automatic variables of the frames of this specification start out the
\* same, and one exception of each kind is thrown
ReentrantEntry == [code |-> "indeterminate", byte |-> 170]

ReentrantThrowables ==
    { [kind |-> "bad_alloc", what |-> [tag |-> 1, len |-> 2]],
      [kind |-> "std", what |-> [tag |-> 2, len |-> 2]],
      [kind |-> "non_exception", what |-> NULL] }

ReentrantStd == [kind |-> "std", what |-> [tag |-> 2, len |-> 2]]

ReentrantResults == {r \in Results : r.isNull \/ r.ref}

NextReentrant ==
    \/ \E sym \in Symbols : Invoke(sym, ReentrantEntry)
    \/ \E sym \in Symbols : Reenter(sym, ReentrantEntry)
    \/ ConstructDb
    \/ ConstructDbThrows(ReentrantStd)
    \/ ConstructArg
    \/ ConstructArgThrows(ReentrantStd)
    \/ CallF
    \/ \E e \in {x \in ReentrantThrowables : x.kind = "bad_alloc"} : WrapThrows(e)
    \/ \E m \in Pending : At("in_f") /\ Top.writes = <<>> /\ SetLastError(m)
    \/ \E r \in ReentrantResults : FReturns(r)
    \/ \E e \in ReentrantThrowables : FThrows(e)
    \/ ReturnNull
    \/ Convert
    \/ ReturnDatum
    \/ ConvertThrows(ReentrantStd)
    \/ InnerCatchBadAlloc
    \/ InnerCatchStd
    \/ PropagateOuter
    \/ LeaveOuterTry
    \/ OuterCatchStd
    \/ OuterCatchAll
    \/ Terminate
    \/ Ereport

SpecReentrant == Init /\ [][NextReentrant]_vars

TypeOK ==
    /\ Len(stack) <= MaxDepth
    /\ last.outcome \in {"none", "returned", "reported"}

\* ------------------------------------------------------------- properties

\* the invocation that ended last ended in a report
Reported == last.outcome = "reported"

\* the name under which each exported symbol is reported
NameOf == [s \in Symbols |-> IF s = "add" THEN <<97, 100, 100>> ELSE <<109, 117, 108>>]

\* the part of the report's text after  Function "<name>":
ReportedMessage ==
    SubSeq(last.text,
           Len(FormatHead) + Len(NameOf[last.fr.sym]) + Len(FormatMid) + 1,
           Len(last.text))

\* the text p points to, cut to what fits before the terminator
Truncated(p) == SubSeq(Deref(p), 1, Min(p.len, MsgSize - 1))

\* the pending error at the time of the failure: the last text written
LastWrite(fr) == fr.writes[Len(fr.writes)]

IsStdException(e) == e.kind \in {"std", "bad_alloc"}

\* C1: an allocation failure raised while the argument adapter is built, in
\* the native function or in the result conversion is reported as out of
\* memory with the fixed text, whatever text the exception carries and whether
\* or not a pending error was recorded.
C1_AllocationFailure ==
    (Reported /\ last.fr.thrown.kind = "bad_alloc"
              /\ last.fr.site \in {"arg", "f", "conv"})
    => /\ last.code = ERRCODE_OUT_OF_MEMORY
       /\ ReportedMessage = OutOfMemoryText

C1_Witness ==
    /\ Reported
    /\ last.fr.thrown.kind = "bad_alloc"
    /\ last.fr.site = "f"
    /\ last.fr.writes # <<>>
    /\ last.fr.thrown.what.len = MsgSize

\* C2: when the native function throws a std::exception other than a
\* bad_alloc, the reported message is the pending error written last if one
\* was written (and not the exception's text), and the exception's text if
\* none was written; either one cut to the size of the buffer.
C2_PendingErrorWins ==
    (Reported /\ last.fr.thrown.kind = "std" /\ last.fr.site = "f")
    => IF last.fr.writes # <<>>
       THEN /\ ReportedMessage = Truncated(LastWrite(last.fr))
            /\ Truncated(LastWrite(last.fr)) # Truncated(last.fr.thrown.what)
                  => ReportedMessage # Truncated(last.fr.thrown.what)
       ELSE ReportedMessage = Truncated(last.fr.thrown.what)

C2_Witness ==
    /\ Reported
    /\ last.fr.thrown.kind = "std"
    /\ last.fr.site = "f"
    /\ Len(last.fr.writes) = 2
    /\ last.fr.writes[1] # last.fr.writes[2]
    /\ last.fr.thrown.what.len = 2
    /\ last.fr.thrown.what # last.fr.writes[2]
    /\ ReportedMessage = Deref(last.fr.writes[2])

\* C3 as stated: every failure reported as an invalid parameter value carries
\* the pending error if one was written, otherwise the exception's text if it
\* has one, otherwise the generic text.
C3_PrecedenceEverywhere ==
    (Reported /\ last.code = ERRCODE_INVALID_PARAMETER_VALUE)
    => ReportedMessage =
          Truncated(IF last.fr.writes # <<>> THEN LastWrite(last.fr)
                    ELSE IF IsStdException(last.fr.thrown) THEN last.fr.thrown.what
                    ELSE UnknownExceptionLiteral)

\* C3 amended: a failure reported as an invalid parameter value carries, when
\* it is a std::exception raised after db was built, the pending error if one
\* was written and otherwise the exception's text; when it is a std::exception
\* thrown by the construction of db, the exception's text; when it is not a
\* std::exception, the generic text, whether or not a pending error was written.
C3_PrecedenceInInnerHandler ==
    (Reported /\ last.code = ERRCODE_INVALID_PARAMETER_VALUE)
    => ReportedMessage =
          Truncated(IF ~IsStdException(last.fr.thrown) THEN UnknownExceptionLiteral
                    ELSE IF last.fr.site # "ctx" /\ last.fr.writes # <<>>
                         THEN LastWrite(last.fr)
                    ELSE last.fr.thrown.what)

C3_Witness ==
    /\ Reported
    /\ last.code = ERRCODE_INVALID_PARAMETER_VALUE
    /\ last.fr.thrown.kind = "non_exception"
    /\ last.fr.writes # <<>>
    /\ ReportedMessage = UnknownExceptionText

\* C4: no write to msg goes beyond its MsgSize bytes; when ereport is called
\* msg holds a NUL at or before its last byte, and the bytes before the first
\* NUL are a prefix of the chosen message: all of it when it has fewer than
\* MsgSize bytes, its first MsgSize - 1 bytes otherwise.
C4_BufferBounded ==
    \A k \in 1..Len(stack) :
        LET fr == stack[k] IN
        /\ fr.wrHigh <= MsgSize
        /\ DOMAIN fr.msg = 1..MsgSize
        /\ fr.pc = "ereport" =>
              LET s == CString(fr.msg)
                  m == Deref(fr.chosen)
              IN /\ \E i \in 1..MsgSize : fr.msg[i] = 0
                 /\ Len(s) <= Len(m)
                 /\ \A i \in 1..Len(s) : s[i] = m[i]
                 /\ Len(m) < MsgSize => s = m
                 /\ Len(m) >= MsgSize => Len(s) = MsgSize - 1

C4_Witness ==
    /\ At("ereport")
    /\ Top.chosen.len = MsgSize
    /\ Len(CString(Top.msg)) = MsgSize - 1

\* C5: when nothing was thrown, call() returns to the host either the null
\* signal, exactly when the result of f is null and then without entering the
\* result conversion, or the converted result without the null signal; no
\* report is made.
C5_SuccessfulReturn ==
    (last.outcome # "none" /\ last.fr.thrown = NoExc)
    => /\ last.outcome = "returned"
       /\ last.ereports = 0
       /\ last.returns = 1
       /\ last.fr.nF = 1
       /\ last.isnull <=> last.fr.fret[1].isNull
       /\ last.isnull => last.fr.nConv = 0 /\ last.datum = NullDatum
       /\ ~last.isnull => /\ last.fr.nConv = 1
                          /\ last.datum = convertToDatum(last.fr.fret[1])

C5_Witness ==
    /\ last.outcome = "returned"
    /\ ~last.isnull
    /\ last.fr.fret[1].v = 3
    /\ last.datum = <<0, 3>>

\* a frame is inside the statements of the try blocks
InTryBody(fr) == fr.pc \in {"ctx", "arg", "call", "in_f", "isnull", "convert"}

\* C6: an invocation in which something was thrown ends in exactly one report
\* and never in a return; no step of it runs a second time and none runs after
\* the throw; an invocation ends either in one return or in one report.
C6_FailureReportedOnce ==
    /\ last.outcome \in {"none", "returned", "reported"}
    /\ last.outcome = "returned" => last.ereports = 0 /\ last.returns = 1
    /\ last.outcome = "reported" => last.ereports = 1 /\ last.returns = 0
    /\ (last.outcome # "none" /\ last.fr.thrown # NoExc)
       => /\ last.outcome = "reported"
          /\ last.fr.nDb <= 1 /\ last.fr.nArg <= 1
          /\ last.fr.nF <= 1 /\ last.fr.nConv <= 1
    /\ last.outcome = "reported" => last.fr.thrown # NoExc
    /\ \A k \in 1..Len(stack) :
          /\ stack[k].thrown # NoExc => ~InTryBody(stack[k])
          /\ stack[k].nDb <= 1 /\ stack[k].nArg <= 1
          /\ stack[k].nF <= 1 /\ stack[k].nConv <= 1

C6_Witness ==
    /\ Reported
    /\ last.fr.site = "conv"
    /\ last.fr.nF = 1
    /\ last.fr.nConv = 1
    /\ last.ereports = 1

\* C7: a thrown value outside the std::exception hierarchy, raised at any step
\* of call(), is caught by a handler of call() and ends in exactly one report,
\* an invalid parameter value with the generic text.
C7_UnknownException ==
    /\ \A k \in 1..Len(stack) :
          /\ stack[k].pc = "thrown_outer" => Handler(OuterHandlers, stack[k].exc) # ""
          /\ stack[k].pc \in {"thrown_inner", "thrown_outer"}
                => stack[k].exc = stack[k].thrown
    /\ (last.outcome # "none" /\ ~IsStdException(last.fr.thrown)
                              /\ last.fr.thrown # NoExc)
       => /\ Reported
          /\ last.ereports = 1
          /\ last.code = ERRCODE_INVALID_PARAMETER_VALUE
          /\ ReportedMessage = UnknownExceptionText

C7_Witness ==
    /\ Reported
    /\ last.fr.thrown.kind = "non_exception"
    /\ last.fr.site = "conv"
    /\ last.fr.writes # <<>>

\* C8: an exception thrown by the construction of db is reported as an invalid
\* parameter value, with its own text when it is a std::exception and the
\* generic text otherwise; db never existed and its pending error is not read.
C8_ContextConstruction ==
    (Reported /\ last.fr.site = "ctx")
    => /\ last.code = ERRCODE_INVALID_PARAMETER_VALUE
       /\ ReportedMessage =
             Truncated(IF IsStdException(last.fr.thrown) THEN last.fr.thrown.what
                       ELSE UnknownExceptionLiteral)
       /\ last.fr.db = "none"
       /\ last.fr.slotReads = 0

C8_Witness ==
    /\ Reported
    /\ last.fr.site = "ctx"
    /\ last.fr.thrown.kind = "bad_alloc"
    /\ last.code = ERRCODE_INVALID_PARAMETER_VALUE

\* C9: the code of every report is out of memory or invalid parameter value.
C9_CodesProduced ==
    /\ Reported => last.code \in {ERRCODE_OUT_OF_MEMORY, ERRCODE_INVALID_PARAMETER_VALUE}
    /\ \A k \in 1..Len(stack) :
          stack[k].pc = "ereport" =>
             stack[k].sqlerrcode \in {ERRCODE_OUT_OF_MEMORY, ERRCODE_INVALID_PARAMETER_VALUE}

C9_Witness ==
    /\ Reported
    /\ last.fr.entry.code = "indeterminate"
    /\ last.fr.thrown.kind = "other_class"
    /\ last.code = ERRCODE_INVALID_PARAMETER_VALUE

\* C10: the text of every report is  Function "<name>": <message>  with the
\* name of the symbol the host invoked and the message the handler chose, cut
\* to the size of the buffer.
C10_ReportText ==
    Reported
    => /\ last.text = FormatHead \o NameOf[last.fr.sym] \o FormatMid
                         \o Truncated(last.fr.chosen)
       /\ last.fr.chosen # NULL
       /\ "msg" \in last.fr.assigned

C10_Witness ==
    /\ Reported
    /\ last.fr.sym = "mul"
    /\ last.fr.chosen.len > MsgSize
    /\ Len(last.text) = Len(FormatHead) + 3 + Len(FormatMid) + MsgSize - 1

\* every frame the host has not forgotten: those in progress and the one of
\* the invocation that ended last
Frames ==
    {stack[k] : k \in 1..Len(stack)}
        \cup (IF last.outcome = "none" THEN {} ELSE {last.fr})

\* C12: when call() enters ereport, db, arg, the argument value, result and
\* the caught exception of its frame are all destroyed (or were never built);
\* only sqlerrcode and msg are left.
C12_PlainDataAtEreport ==
    \A fr \in Frames :
        fr.pc \in {"ereport", "reported"}
        => /\ fr.db \in {"none", "destroyed"}
           /\ fr.lastError = NULL
           /\ fr.arg \in {"none", "destroyed"}
           /\ fr.argval \in {"none", "destroyed"}
           /\ fr.argRefs = 0
           /\ fr.result = <<>>
           /\ fr.exc = NoExc

C12_Witness ==
    /\ At("ereport")
    /\ Top.site = "conv"
    /\ Top.fret # <<>>
    /\ Top.db = "destroyed"
    /\ Top.arg = "destroyed"
    /\ Top.argval = "destroyed"

\* C13: arg is released only by the end of its scope, never through an
\* AnyType value referring to it, and exactly once when it was built; it is
\* alive as long as f or the result conversion can read through such a value.
C13_ArgumentNotOwned ==
    \A fr \in Frames :
        /\ fr.releasedBy \subseteq {"scope"}
        /\ fr.arg = "none" => fr.argReleases = 0
        /\ fr.arg = "alive" => fr.argReleases = 0
        /\ fr.arg = "destroyed" => fr.argReleases = 1
        /\ fr.pc \in {"in_f", "isnull", "convert"} => fr.arg = "alive"
        /\ fr.argRefs > 0 => fr.arg = "alive"
        /\ fr.pc \in {"returned", "reported", "inner_done", "post", "ereport",
                      "thrown_inner", "thrown_outer"}
              => fr.arg # "alive" /\ fr.argRefs = 0

C13_Witness ==
    /\ last.outcome = "returned"
    /\ last.fr.fret[1].ref
    /\ last.fr.arg = "destroyed"
    /\ last.fr.argReleases = 1
    /\ last.fr.releasedBy = {"scope"}

\* the state of the trampoline's state machine a frame is in
PhaseOf(fr) ==
    IF fr.pc \in {"inner_done", "post", "ereport"}
    THEN IF fr.sqlerrcode = ERRCODE_OUT_OF_MEMORY /\ "sqlerrcode" \in fr.assigned
              THEN "FatalFailure"
         ELSE IF fr.sqlerrcode = ERRCODE_INVALID_PARAMETER_VALUE /\ "sqlerrcode" \in fr.assigned
              THEN "RecoverableFailure"
         ELSE "Unclassified"
    ELSE "Executing"

Phase ==
    IF stack # <<>> THEN PhaseOf(Top)
    ELSE IF last.outcome = "returned" THEN "Success"
    ELSE IF last.outcome = "reported" THEN "ReportedToHost"
    ELSE "Ready"

PhaseSteps ==
    { <<"Ready", "Executing">>, <<"Executing", "Executing">>,
      <<"Executing", "Success">>,
      <<"Executing", "RecoverableFailure">>, <<"Executing", "FatalFailure">>,
      <<"RecoverableFailure", "RecoverableFailure">>,
      <<"FatalFailure", "FatalFailure">>,
      <<"RecoverableFailure", "ReportedToHost">>,
      <<"FatalFailure", "ReportedToHost">> }

\* the host starts another invocation once the one before has ended
NewInvocation ==
    /\ stack = <<>>
    /\ Len(stack') = 1
    /\ stack'[1].pc = "ctx"
    /\ stack'[1].nF = 0

C15_Step ==
    /\ <<Phase, Phase'>> \in PhaseSteps \/ NewInvocation
    /\ (Phase' = "ReportedToHost" /\ stack # <<>>)
          => Top.pc = "ereport" /\ last'.ereports = 1 /\ last'.fr.thrown # NoExc
    /\ (Phase = "Executing" /\ Phase' \in {"RecoverableFailure", "FatalFailure"})
          => Top'.thrown # NoExc
    /\ Phase \in {"Success", "ReportedToHost"} => NewInvocation
    /\ (stack # <<>> /\ Len(stack') = Len(stack) /\ Top'.nF # Top.nF)
          => /\ Top.nF = 0 /\ Top'.nF = 1
             /\ Phase = "Executing"
             /\ Top.thrown = NoExc
             /\ "sqlerrcode" \notin Top.assigned

\* C15: an invocation runs Ready -> Executing -> Success, or Executing ->
\* RecoverableFailure or FatalFailure -> ReportedToHost; ReportedToHost is
\* entered only by ereport from a failure state and nothing of the invocation
\* follows it or Success; f is entered at most once and never after a throw.
C15_StateMachine == [][C15_Step]_vars

C15_Witness ==
    /\ Phase = "ReportedToHost"
    /\ last.code = ERRCODE_OUT_OF_MEMORY
    /\ last.fr.nF = 1
    /\ last.fr.site = "f"

\* what one step may do to sqlerrcode and msg of the running frame
C16_Step ==
    (stack # <<>> /\ Len(stack') = Len(stack)
        /\ (Top'.sqlerrcode # Top.sqlerrcode \/ Top'.msg # Top.msg
              \/ Top'.assigned # Top.assigned))
    => \/ /\ Top.pc \in {"thrown_inner", "thrown_outer"}
          /\ Top.exc # NoExc
          /\ Top'.assigned = {"sqlerrcode", "msg"}
          /\ Top'.exc = NoExc
       \/ /\ Top.pc = "post"
          /\ Top'.sqlerrcode = Top.sqlerrcode
          /\ Top'.assigned = Top.assigned
          /\ \A i \in 1..(MsgSize - 1) : Top'.msg[i] = Top.msg[i]

C16_Assigned ==
    \A fr \in Frames :
        fr.pc \in {"inner_done", "post", "ereport", "reported"}
        => /\ fr.assigned = {"sqlerrcode", "msg"}
           /\ fr.thrown # NoExc
           /\ fr.chosen # NULL

C17_Derefs ==
    \A fr \in Frames :
        /\ \A k \in 1..Len(fr.derefs) :
              LET d == fr.derefs[k] IN
              d.p.tag > 0 =>
                 /\ d.exc # NoExc
                 /\ d.p = d.exc.what \/ (d.db = "alive" /\ d.p = d.lastError)
        /\ Len(fr.derefs) <= 1
        /\ fr.slotReads <= 1
        /\ fr.slotReads = 1 => fr.db # "none"

\* the frame a step leaves behind: the running one, or the one handed to the host
After == IF stack' # <<>> THEN stack'[Len(stack')] ELSE last'.fr

C17_Step ==
    stack # <<>> /\ Len(stack') <= Len(stack) =>
       /\ After.slotReads # Top.slotReads
             => Top.db = "alive" /\ Top.pc = "thrown_inner"
       /\ Top.db # "alive" /\ Top.pc \in {"post", "ereport"}
             => After.derefs = Top.derefs /\ After.slotReads = Top.slotReads

\* C17: the pending error is read, and its text copied into msg, only in the
\* inner handler while db is alive; once db is destroyed neither the pending
\* error nor the exception's text is read again, only msg.
C17_ReadWhileAlive == []C17_Derefs /\ [][C17_Step]_vars

C17_Witness ==
    /\ Reported
    /\ last.fr.writes # <<>>
    /\ last.fr.slotReads = 1
    /\ Len(last.fr.derefs) = 1
    /\ last.fr.derefs[1].db = "alive"
    /\ last.fr.derefs[1].p = LastWrite(last.fr)
    /\ last.fr.db = "destroyed"

\* C18: when f recorded a pending error and returned, and the result
\* conversion did not fail, call() returns the null signal or the converted
\* result as it would have without the pending error; the pending error is
\* never read and goes with db, and nothing is reported.
C18_PendingErrorAlone ==
    (last.outcome # "none" /\ last.fr.writes # <<>> /\ last.fr.fret # <<>>
                           /\ last.fr.site # "conv")
    => /\ last.outcome = "returned"
       /\ last.ereports = 0
       /\ last.fr.thrown = NoExc
       /\ last.isnull = last.fr.fret[1].isNull
       /\ last.datum = (IF last.fr.fret[1].isNull THEN NullDatum
                        ELSE convertToDatum(last.fr.fret[1]))
       /\ last.fr.slotReads = 0
       /\ last.fr.derefs = <<>>
       /\ last.fr.db = "destroyed"
       /\ last.fr.lastError = NULL

C18_Witness ==
    /\ last.outcome = "returned"
    /\ Len(last.fr.writes) = 2
    /\ ~last.isnull
    /\ last.datum = <<65535, 65535>>

\* the native function registered under each exported name
DescriptorOf == [s \in Symbols |-> IF s = "add" THEN "modules::add" ELSE "modules::mul"]

OidOf == [s \in Symbols |-> IF s = "add" THEN 16401 ELSE 16402]

C11_OwnDescriptor ==
    \A fr \in Frames :
        /\ fr.f = DescriptorOf[fr.sym]
        /\ fr.fcinfo.fn_oid = OidOf[fr.sym]
        /\ \A i \in 1..Len(fr.ran) : fr.ran[i] = DescriptorOf[fr.sym]
        /\ Len(fr.ran) = fr.nF
        /\ fr.pc = "ctx" => /\ fr.db = "none" /\ fr.arg = "none"
                            /\ fr.assigned = {} /\ fr.sqlerrcode = fr.entry.code
        /\ fr.pc \in {"ctx", "arg", "call"} => fr.lastError = NULL /\ fr.writes = <<>>

C11_Step ==
    \A k \in 1..(Len(stack) - 1) :
        (stack[k].sym # Top.sym /\ k <= Len(stack')) => stack'[k] = stack[k]

\* C11: every invocation runs the native function registered under the name
\* the host invoked and no other; its context starts empty whatever other
\* invocations did, and no step of it changes the frame of an invocation of
\* the other symbol that is in progress.
C11_DescriptorsIndependent == []C11_OwnDescriptor /\ [][C11_Step]_vars

C11_Witness ==
    /\ Len(stack) = 2
    /\ stack[1].sym = "add"
    /\ stack[1].ran = <<"modules::add">>
    /\ stack[1].writes # <<>>
    /\ stack[2].sym = "mul"
    /\ stack[2].ran = <<"modules::mul">>
    /\ stack[2].pc = "in_f"
    /\ stack[2].writes = <<>>

\* the code and the text an invocation reports, from what it did itself
ExpectedCode(fr) ==
    IF fr.thrown.kind = "bad_alloc" /\ fr.site # "ctx"
    THEN ERRCODE_OUT_OF_MEMORY
    ELSE ERRCODE_INVALID_PARAMETER_VALUE

ExpectedMessage(fr) ==
    Truncated(IF fr.thrown.kind = "bad_alloc" /\ fr.site # "ctx" THEN OutOfMemoryLiteral
              ELSE IF ~IsStdException(fr.thrown) THEN UnknownExceptionLiteral
              ELSE IF fr.site # "ctx" /\ fr.writes # <<>> THEN LastWrite(fr)
              ELSE fr.thrown.what)

C14_OwnRecord ==
    /\ \A k \in 1..Len(stack) :
          LET fr == stack[k] IN
          /\ fr.lastError = (IF fr.db = "alive" /\ fr.writes # <<>>
                             THEN LastWrite(fr) ELSE NULL)
          /\ fr.pc = "ereport" => /\ fr.sqlerrcode = ExpectedCode(fr)
                                  /\ CString(fr.msg) = ExpectedMessage(fr)
    /\ Reported => /\ last.code = ExpectedCode(last.fr)
                   /\ ReportedMessage = ExpectedMessage(last.fr)
    /\ last.outcome = "returned"
          => /\ last.isnull = last.fr.fret[1].isNull
             /\ last.datum = (IF last.fr.fret[1].isNull THEN NullDatum
                              ELSE convertToDatum(last.fr.fret[1]))

C14_Step ==
    /\ \A k \in 1..(Len(stack) - 1) : k <= Len(stack') => stack'[k] = stack[k]
    /\ (stack # <<>> /\ Len(stack') = Len(stack) + 1) => stack'[Len(stack)] = Top

====
